---- MODULE Spec2Model ----
(***************************************************************************)
(* OpenClimate Data Viewer (src/app.py): a Streamlit script that is        *)
(* re-executed top to bottom on every user interaction.  Upstream data     *)
(* (pledge API, intake catalog) is reached through @st.cache'd functions;  *)
(* the script filters, aggregates and plots it.                            *)
(*                                                                         *)
(* Numbers.  Emissions are integers (tonnes).  The script multiplies every *)
(* plotted quantity by conversion = 1/10**9; a plotted number n therefore  *)
(* stands for n * 10^-9 Gt.  A target level is kept in hundredths: the     *)
(* number n stands for n/100 tonnes, so baseline*((100-p)/100) is the      *)
(* integer baseline*(100-p).                                               *)
(***************************************************************************)
EXTENDS Integers, Sequences, FiniteSets, TLC

VARIABLES
    cache,          \* st.cache of the zero-argument readers: function name -> value
    pledgeCache,    \* st.cache of get_actor_pledge: actor_id -> list of pledges
    fetches,        \* upstream reads per catalog source
    pledgeFetches,  \* upstream GETs per actor id
    options,        \* multiselect widget value (set of country names)
    option,         \* selectbox widget value
    pc,             \* position of the script run
    run,            \* locals of the current script run
    tgt,            \* target computation in isolation: inputs and result
    agg             \* by-year aggregation in isolation: input and result

vars == <<cache, pledgeCache, fetches, pledgeFetches, options, option,
          pc, run, tgt, agg>>

appVars == <<cache, pledgeCache, fetches, pledgeFetches, options, option,
             pc, run>>

-----------------------------------------------------------------------------
(* Bounds *)

MaxRows == 3        \* rows of a table in the isolated computations
MaxPledges == 2     \* pledges returned for one actor

-----------------------------------------------------------------------------
(* Data *)

Row(a, y, t) == [actor |-> a, year |-> y, total_emissions |-> t]

CRow(n, a) == [name |-> n, actor |-> a]

Pledge(y, p) == [baseline_year |-> y, target_value |-> p]

SeqsUpTo(S, n) == UNION {[1..k -> S] : k \in 0..n}

Max2(a, b) == IF a > b THEN a ELSE b

\* Series.max(): NaN for an empty series
NaN == -1

RECURSIVE SeqMax(_)
SeqMax(s) ==
    IF Len(s) = 0 THEN NaN
    ELSE IF Len(s) = 1 THEN s[1]
    ELSE Max2(s[1], SeqMax(Tail(s)))

\* a > b on floats: False when either side is NaN
Gt(a, b) == a # NaN /\ b # NaN /\ a > b

\* df.loc[df['actor'] == actor_id]
FilterActor(df, a) == SelectSeq(df, LAMBDA r : r.actor = a)

\* df['year'], df['total_emissions']
YearCol(df) == [i \in DOMAIN df |-> df[i].year]

TotalCol(df) == [i \in DOMAIN df |-> df[i].total_emissions]

-----------------------------------------------------------------------------
(* Target computation: get_target_emissions_dict *)

\* pledges[0] written with the last index instead of the first
LastPledge(pledges) == pledges[Len(pledges)]

\* pledges[0]
FirstPledge(pledges) == pledges[1]

\* the reduction applied instead of the remainder
ScaleTargetSwapped(e, target_value) == e * target_value

\* baseline_emissions * ((100 - target_value) / 100), in hundredths
ScaleTarget(e, target_value) == e * (100 - target_value)

\* data.loc[data['year'] == baseline_year, 'total_emissions']
BaselineEmissions(data, baseline_year) ==
    TotalCol(SelectSeq(data, LAMBDA r : r.year = baseline_year))

GetTargetEmissionsDict(data, pledges) ==
    IF Len(pledges) = 0
    THEN [raised |-> "IndexError", target_emissions |-> <<>>, baseline_year |-> 0]
    ELSE LET baseline_year == FirstPledge(pledges).baseline_year
             target_value == FirstPledge(pledges).target_value
             baseline_emissions == BaselineEmissions(data, baseline_year)
         IN  [raised |-> "none",
              target_emissions |->
                  [i \in DOMAIN baseline_emissions |->
                      ScaleTarget(baseline_emissions[i], target_value)],
              baseline_year |-> baseline_year]

-----------------------------------------------------------------------------
(* Aggregation: df[['year','total_emissions']].groupby(by=['year']).sum()   *)
(*              .reset_index()                                              *)

YearsOf(df) == {df[i].year : i \in DOMAIN df}

\* the group keeps the last value seen instead of accumulating
RECURSIVE SumYearLast(_, _)
SumYearLast(df, y) ==
    IF Len(df) = 0 THEN 0
    ELSE IF df[Len(df)].year = y THEN df[Len(df)].total_emissions
    ELSE SumYearLast(SubSeq(df, 1, Len(df) - 1), y)

\* sum of the group of year y, accumulated in row order
RECURSIVE SumYear(_, _)
SumYear(df, y) ==
    IF Len(df) = 0 THEN 0
    ELSE (IF Head(df).year = y THEN Head(df).total_emissions ELSE 0)
         + SumYear(Tail(df), y)

\* group keys in ascending order (groupby sorts its keys)
RECURSIVE SortedSeq(_)
SortedSeq(S) ==
    IF S = {} THEN <<>>
    ELSE LET m == CHOOSE x \in S : \A z \in S : x <= z
         IN  <<m>> \o SortedSeq(S \ {m})

GroupBySum(df) ==
    LET keys == SortedSeq(YearsOf(df))
    IN  [i \in DOMAIN keys |->
            [year |-> keys[i], total_emissions |-> SumYear(df, keys[i])]]

-----------------------------------------------------------------------------
(* The two computations in isolation *)

TgtYears == {2005, 2010}

TgtTotals == {90, 100}

TgtPercents == {0, 30, 50, 100}

TgtRows == {Row("CA", y, t) : y \in TgtYears, t \in TgtTotals}

TgtPledges == {Pledge(y, p) : y \in TgtYears, p \in TgtPercents}

NoTarget == [raised |-> "none", target_emissions |-> <<>>, baseline_year |-> 0]

TgtIdle == [data |-> <<>>, pledges |-> <<>>, done |-> FALSE, out |-> NoTarget]

AggActors == {"ON", "QC"}

AggYears == {2010, 2011}

AggTotals == {30, 40, 42}

AggRows == {Row(a, y, t) : a \in AggActors, y \in AggYears, t \in AggTotals}

AggIdle == [df |-> <<>>, done |-> FALSE, out |-> <<>>]

ComputeTarget ==
    /\ ~tgt.done
    /\ tgt' = [tgt EXCEPT !.done = TRUE,
                          !.out = GetTargetEmissionsDict(tgt.data, tgt.pledges)]
    /\ UNCHANGED <<appVars, agg>>

Aggregate ==
    /\ ~agg.done
    /\ agg' = [agg EXCEPT !.done = TRUE, !.out = GroupBySum(agg.df)]
    /\ UNCHANGED <<appVars, tgt>>

-----------------------------------------------------------------------------
(* Upstream contents the session can meet.  Every fetch returns one of     *)
(* these; two fetches of the same source need not return the same value.   *)

USA == "United States of America"

\* the selectbox options of line 227
SelectOptions == {"Canada", USA}

\* the catalog object returned by intake.open_catalog
Catalog == "master.yaml"

CountryTables ==
    { <<CRow("Canada", "CA"), CRow(USA, "US")>>,
      <<CRow("Canada", "CA")>>,
      <<CRow("Canada", "CAN"), CRow(USA, "US")>> }

NameLists == { <<"Canada", USA>>, <<"Canada">>, <<USA>> }

UnfcccTables ==
    { <<>>,
      <<Row("CA", 2005, 100), Row("CA", 2010, 90), Row("US", 2010, 100)>>,
      <<Row("CA", 2010, 100), Row("US", 2010, 100)>>,
      <<Row("CAN", 2005, 100), Row("US", 2010, 100)>> }

EcccTables ==
    { <<Row("CA-ON", 2010, 40), Row("CA-QC", 2010, 30), Row("CA-ON", 2011, 42)>>,
      <<Row("CA-ON", 2010, 40), Row("CA-QC", 2010, 30)>>,
      <<Row("CA-ON", 2010, 40), Row("CA-QC", 2010, 30), Row("CA", 2010, 100)>> }

EpaTables == { <<>>, <<Row("US-TX", 2010, 70)>> }

PledgeLists ==
    { <<>>,
      <<Pledge(2005, 30)>>,
      <<Pledge(2005, 30), Pledge(2010, 100)>> }

-----------------------------------------------------------------------------
(* st.cache *)

\* a hit stores the freshly passed value over the cached one
MemoOverwrite(c, key, val) == (key :> val) @@ c

\* read-through memoization: the stored value is the one of the first call
Memo(c, key, val) == IF key \in DOMAIN c THEN c ELSE c @@ (key :> val)

Bump(f, src) == [f EXCEPT ![src] = @ + 1]

\* a cached reader fn() whose body is open_catalog() followed by one read of src
CallReader(fn, src, val) ==
    LET miss == fn \notin DOMAIN cache
        catMiss == miss /\ "open_catalog" \notin DOMAIN cache
        c1 == IF miss THEN Memo(cache, "open_catalog", Catalog) ELSE cache
        f1 == IF catMiss THEN Bump(fetches, "catalog") ELSE fetches
    IN  /\ cache' = Memo(c1, fn, val)
        /\ fetches' = IF miss THEN Bump(f1, src) ELSE f1

-----------------------------------------------------------------------------
(* One run of the script.  An uncaught exception ends the run (pc = "error") *)
(* and Streamlit shows the traceback in place of the remaining output.     *)
(* Failures of the upstream fetches themselves are not modelled.           *)

NoLines == <<>>

Line(k, a, xs, ys) == [kind |-> k, actor |-> a, xs |-> xs, ys |-> ys]

\* ymax = 0.1 (Gt), line 146
YmaxInit == 100000000

RunInit ==
    [ country_codes |-> <<>>, ymax |-> YmaxInit, fig1 |-> NoLines, shown1 |-> FALSE,
      ms_shown |-> FALSE, sb_shown |-> FALSE,
      actor_id |-> "", assigned |-> FALSE, df_sum |-> <<>>, subnational_total |-> <<>>,
      fig2 |-> NoLines, shown2 |-> FALSE, difference |-> <<>>, fig3 |-> NoLines,
      shown3 |-> FALSE, err |-> "none", errLine |-> 0 ]

Raise(r, e, l) == [r EXCEPT !.err = e, !.errLine = l]

NextPc(p) ==
    CASE p = "l122" -> "l123"
      [] p = "l123" -> "l124"
      [] p = "l124" -> "l133"
      [] p = "l211" -> "l212"
      [] p = "l212" -> "l213"
      [] p = "l213" -> "l214"
      [] p = "l214" -> "l215"
      [] p = "l215" -> "l225"

\* lines 122, 211
GetCountryNames ==
    /\ pc \in {"l122", "l211"}
    /\ \E v \in NameLists : CallReader("get_country_names", "country", v)
    /\ pc' = NextPc(pc)
    /\ UNCHANGED <<pledgeCache, pledgeFetches, options, option, run, tgt, agg>>

\* lines 123, 212
ReadCountries ==
    /\ pc \in {"l123", "l212"}
    /\ \E v \in CountryTables : CallReader("read_countries", "country", v)
    /\ pc' = NextPc(pc)
    /\ UNCHANGED <<pledgeCache, pledgeFetches, options, option, run, tgt, agg>>

\* lines 124, 213
ReadUnfccc ==
    /\ pc \in {"l124", "l213"}
    /\ \E v \in UnfcccTables : CallReader("read_unfccc", "unfccc", v)
    /\ pc' = NextPc(pc)
    /\ UNCHANGED <<pledgeCache, pledgeFetches, options, option, run, tgt, agg>>

\* line 214
ReadEpa ==
    /\ pc = "l214"
    /\ \E v \in EpaTables : CallReader("read_epa", "epa", v)
    /\ pc' = NextPc(pc)
    /\ UNCHANGED <<pledgeCache, pledgeFetches, options, option, run, tgt, agg>>

\* line 215
ReadEccc ==
    /\ pc = "l215"
    /\ \E v \in EcccTables : CallReader("read_eccc", "eccc", v)
    /\ pc' = NextPc(pc)
    /\ UNCHANGED <<pledgeCache, pledgeFetches, options, option, run, tgt, agg>>

SeqRange(s) == {s[i] : i \in DOMAIN s}

\* countries.loc[countries['name'].isin(options), 'actor']
CodesOf(countries, opts) ==
    LET sel == SelectSeq(countries, LAMBDA r : r.name \in opts)
    IN  [i \in DOMAIN sel |-> sel[i].actor]

\* lines 133-146: multiselect (its default must be one of the options) and
\* the selected country codes
SelectCountries ==
    /\ pc = "l133"
    /\ IF "Canada" \notin SeqRange(cache["get_country_names"])
       THEN /\ run' = Raise(run, "StreamlitAPIException", 133)
            /\ pc' = "error"
       ELSE /\ run' = [run EXCEPT !.ms_shown = TRUE,
                                  !.country_codes = CodesOf(cache["read_countries"], options)]
            /\ pc' = "l147"
    /\ UNCHANGED <<cache, pledgeCache, fetches, pledgeFetches, options, option,
                   tgt, agg>>

\* the dashed lines of line 169: y = [target_emissions, target_emissions] is a
\* 2 x k array, drawn as one line per element of target_emissions; for k = 0
\* (no row for the baseline year) ax.plot draws nothing
TargetLines(a, td, last) ==
    [i \in DOMAIN td.target_emissions |->
        Line("target", a, <<td.baseline_year, last>>,
             <<td.target_emissions[i], td.target_emissions[i]>>)]

\* lines 147-202: one iteration of the loop over country_codes
LoopBody ==
    /\ pc = "l147"
    /\ Len(run.country_codes) > 0
    /\ LET actor_id == Head(run.country_codes)
           data == FilterActor(cache["read_unfccc"], actor_id)
           ymax_tmp == SeqMax(TotalCol(data))
           ymax == IF Gt(ymax_tmp, run.ymax) THEN ymax_tmp ELSE run.ymax
           r0 == [run EXCEPT !.actor_id = actor_id, !.ymax = ymax,
                             !.country_codes = Tail(@)]
       IN  \E v \in PledgeLists :
             LET pc1 == Memo(pledgeCache, actor_id, v)
                 td == GetTargetEmissionsDict(data, pc1[actor_id])
                 r1 == [r0 EXCEPT !.fig1 =
                           Append(@, Line("emissions", actor_id, YearCol(data), TotalCol(data)))]
             IN  /\ pledgeCache' = pc1
                 /\ pledgeFetches' = IF actor_id \in DOMAIN pledgeCache
                                     THEN pledgeFetches
                                     ELSE pledgeFetches @@ (actor_id :> 1)
                 /\ IF td.raised # "none"
                    THEN /\ run' = Raise(r0, td.raised, 39)
                         /\ pc' = "error"
                    ELSE IF Len(data) = 0
                    THEN /\ run' = Raise(r1, "IndexError", 169)
                         /\ pc' = "error"
                    ELSE /\ run' = [r1 EXCEPT !.fig1 =
                                       @ \o TargetLines(actor_id, td, data[Len(data)].year)]
                         /\ pc' = "l147"
    /\ UNCHANGED <<cache, fetches, options, option, tgt, agg>>

\* lines 204-206
ShowCountryFigure ==
    /\ pc = "l147"
    /\ Len(run.country_codes) = 0
    /\ run' = [run EXCEPT !.shown1 = TRUE]
    /\ pc' = "l211"
    /\ UNCHANGED <<cache, pledgeCache, fetches, pledgeFetches, options, option,
                   tgt, agg>>

\* lines 225-231: selectbox and the actor id of the selected country
SelectCountry ==
    /\ pc = "l225"
    /\ LET sel == SelectSeq(cache["read_countries"], LAMBDA r : r.name = option)
       IN  IF Len(sel) = 0
           THEN /\ run' = Raise([run EXCEPT !.sb_shown = TRUE], "IndexError", 231)
                /\ pc' = "error"
           ELSE /\ run' = [run EXCEPT !.sb_shown = TRUE, !.actor_id = sel[1].actor]
                /\ pc' = "l245"
    /\ UNCHANGED <<cache, pledgeCache, fetches, pledgeFetches, options, option,
                   tgt, agg>>

\* lines 254-266: the table summed for the selected country, if any
SubnationalTable(actor_id) ==
    IF actor_id = "CA" THEN [found |-> TRUE, df |-> cache["read_eccc"]]
    ELSE IF actor_id = "US" THEN [found |-> TRUE, df |-> cache["read_epa"]]
    ELSE [found |-> FALSE, df |-> <<>>]

\* lines 236-302: national line and the sum of the subnational inventory
PlotNational ==
    /\ pc = "l245"
    /\ LET data == FilterActor(cache["read_unfccc"], run.actor_id)
           country_total == TotalCol(data)
           ymax == SeqMax(country_total)
           tab == SubnationalTable(run.actor_id)
           df_sum == GroupBySum(tab.df)
           subnational_total == TotalCol(df_sum)
           natLine == Line("national", run.actor_id, YearCol(data), country_total)
           sumLine == Line("sum", run.actor_id, YearCol(df_sum), subnational_total)
           r1 == [run EXCEPT !.ymax = ymax,
                             !.assigned = tab.found,
                             !.df_sum = IF tab.found THEN df_sum ELSE <<>>,
                             !.subnational_total = IF tab.found THEN subnational_total ELSE <<>>,
                             !.fig2 = IF tab.found THEN <<natLine, sumLine>> ELSE <<natLine>>]
       IN  IF ymax = NaN
           THEN /\ run' = Raise(r1, "ValueError", 268)
                /\ pc' = "error"
           ELSE /\ run' = [r1 EXCEPT !.shown2 = TRUE]
                /\ pc' = "l312"
    /\ UNCHANGED <<cache, pledgeCache, fetches, pledgeFetches, options, option,
                   tgt, agg>>

\* numpy a - b on one-dimensional arrays: element by position, a length-1
\* operand is broadcast, any other pair of different lengths raises
NumpySub(a, b) ==
    IF Len(a) = Len(b)
    THEN [ok |-> TRUE, v |-> [i \in DOMAIN a |-> a[i] - b[i]]]
    ELSE IF Len(a) = 1
    THEN [ok |-> TRUE, v |-> [i \in DOMAIN b |-> a[1] - b[i]]]
    ELSE IF Len(b) = 1
    THEN [ok |-> TRUE, v |-> [i \in DOMAIN a |-> a[i] - b[1]]]
    ELSE [ok |-> FALSE, v |-> <<>>]

Abs(x) == IF x < 0 THEN -x ELSE x

\* lines 321-349: ymax after the loop over set(df.actor)
RECURSIVE SubnatYmax(_, _, _)
SubnatYmax(df, actors, ymax) ==
    IF actors = {} THEN ymax
    ELSE LET a == CHOOSE x \in actors : TRUE
             ymax_tmp == SeqMax(TotalCol(FilterActor(df, a)))
         IN  SubnatYmax(df, actors \ {a}, IF ymax_tmp > ymax THEN ymax_tmp ELSE ymax)

\* lines 307-389: the difference figure
PlotDifference ==
    /\ pc = "l312"
    /\ LET data == FilterActor(cache["read_unfccc"], run.actor_id)
           country_total == TotalCol(data)
           d == NumpySub(country_total, run.subnational_total)
           tab == SubnationalTable(run.actor_id)
           ymax0 == SeqMax([i \in DOMAIN d.v |-> Abs(d.v[i])])
           ymax == SubnatYmax(tab.df, {tab.df[i].actor : i \in DOMAIN tab.df}, ymax0)
       IN  IF ~run.assigned
           THEN /\ run' = Raise(run, "NameError", 312)
                /\ pc' = "error"
           ELSE IF ~d.ok
           THEN /\ run' = Raise(run, "ValueError", 312)
                /\ pc' = "error"
           ELSE IF Len(d.v) = 0
           THEN /\ run' = Raise([run EXCEPT !.difference = d.v], "ValueError", 314)
                /\ pc' = "error"
           ELSE IF Len(data) # Len(d.v)
           THEN /\ run' = Raise([run EXCEPT !.difference = d.v, !.ymax = ymax],
                                "ValueError", 352)
                /\ pc' = "error"
           ELSE /\ run' = [run EXCEPT !.difference = d.v, !.ymax = ymax,
                               !.fig3 = <<Line("difference", run.actor_id, YearCol(data), d.v)>>,
                               !.shown3 = TRUE]
                /\ pc' = "done"
    /\ UNCHANGED <<cache, pledgeCache, fetches, pledgeFetches, options, option,
                   tgt, agg>>

\* a user interaction (or a reload) re-executes the script; a widget can be
\* changed only if the previous run rendered it
Rerun ==
    /\ pc \in {"done", "error"}
    /\ options' \in IF run.ms_shown
                    THEN SUBSET SeqRange(cache["get_country_names"])
                    ELSE {options}
    /\ option' \in IF run.sb_shown THEN SelectOptions ELSE {option}
    /\ run' = RunInit
    /\ pc' = "l122"
    /\ UNCHANGED <<cache, pledgeCache, fetches, pledgeFetches, tgt, agg>>

-----------------------------------------------------------------------------
(* Specifications *)

EmptyFn == [x \in {} |-> 0]

Sources == {"catalog", "country", "unfccc", "epa", "eccc"}

AppInit ==
    /\ cache = EmptyFn
    /\ pledgeCache = EmptyFn
    /\ fetches = [s \in Sources |-> 0]
    /\ pledgeFetches = EmptyFn
    /\ options = {"Canada"}
    /\ option = "Canada"
    /\ pc = "l122"
    /\ run = RunInit

Init ==
    /\ AppInit
    /\ tgt = TgtIdle
    /\ agg = AggIdle

Next ==
    \/ GetCountryNames
    \/ ReadCountries
    \/ ReadUnfccc
    \/ ReadEpa
    \/ ReadEccc
    \/ SelectCountries
    \/ LoopBody
    \/ ShowCountryFigure
    \/ SelectCountry
    \/ PlotNational
    \/ PlotDifference
    \/ Rerun

Spec == Init /\ [][Next]_vars

InitTarget ==
    /\ AppInit
    /\ agg = AggIdle
    /\ \E d \in SeqsUpTo(TgtRows, MaxRows), p \in SeqsUpTo(TgtPledges, MaxPledges) :
          tgt = [data |-> d, pledges |-> p, done |-> FALSE, out |-> NoTarget]

NextTarget == ComputeTarget

SpecTarget == InitTarget /\ [][NextTarget]_vars

InitAggregate ==
    /\ AppInit
    /\ tgt = TgtIdle
    /\ \E d \in SeqsUpTo(AggRows, MaxRows) :
          agg = [df |-> d, done |-> FALSE, out |-> <<>>]

NextAggregate == Aggregate

SpecAggregate == InitAggregate /\ [][NextAggregate]_vars

-----------------------------------------------------------------------------
(* Properties *)

\* the rows of series S for year Y
RowsOfYear(S, Y) == {i \in DOMAIN S : S[i].year = Y}

\* C1: for a series with exactly one row for the baseline year Y and a target
\* percentage p, the target computation returns exactly S[Y] * (100 - p) / 100
\* (here in hundredths: S[Y] * (100 - p)); p = 0 gives the baseline value,
\* p = 100 gives 0, and {2005: 100, 2010: 90} with pledge (2005, 30) gives 70.
C1_TargetValue ==
    (tgt.done /\ Len(tgt.pledges) > 0) =>
        LET Y == tgt.pledges[1].baseline_year
            p == tgt.pledges[1].target_value
            S == tgt.data
        IN  Cardinality(RowsOfYear(S, Y)) = 1 =>
              LET SY == S[CHOOSE i \in RowsOfYear(S, Y) : TRUE].total_emissions
              IN  /\ tgt.out.raised = "none"
                  /\ tgt.out.target_emissions = <<SY * (100 - p)>>
                  /\ p = 0 => tgt.out.target_emissions = <<100 * SY>>
                  /\ p = 100 => tgt.out.target_emissions = <<0>>
                  /\ (S = <<Row("CA", 2005, 100), Row("CA", 2010, 90)>>
                        /\ Y = 2005 /\ p = 30)
                      => tgt.out.target_emissions = <<70 * 100>>

C1_Witness ==
    /\ tgt.done
    /\ tgt.data = <<Row("CA", 2005, 100), Row("CA", 2010, 90)>>
    /\ tgt.pledges = <<Pledge(2005, 30)>>
    /\ tgt.out.target_emissions = <<7000>>

\* the series of year -> total read off a table with columns year, total_emissions
HasYear(S, y) == \E i \in DOMAIN S : S[i].year = y

\* C2: the difference series has an entry for year y iff y is present in both
\* the national series and the aggregated subnational series, and that entry
\* equals national[y] - aggregated[y].
C2_DifferenceByYear ==
    run.shown3 =>
        LET A == FilterActor(cache["read_unfccc"], run.actor_id)
            B == run.df_sum
            D == run.fig3[1]
        IN  /\ \A i \in DOMAIN D.xs :
                 \E j \in DOMAIN A, k \in DOMAIN B :
                    /\ A[j].year = D.xs[i]
                    /\ B[k].year = D.xs[i]
                    /\ D.ys[i] = A[j].total_emissions - B[k].total_emissions
            /\ \A j \in DOMAIN A :
                 HasYear(B, A[j].year) => \E i \in DOMAIN D.xs : D.xs[i] = A[j].year

RECURSIVE SumOver(_, _)
SumOver(df, I) ==
    IF I = {} THEN 0
    ELSE LET i == CHOOSE x \in I : TRUE
         IN  df[i].total_emissions + SumOver(df, I \ {i})

Permute(df, f) == [i \in DOMAIN df |-> df[f[i]]]

AggScenario == <<Row("ON", 2010, 40), Row("QC", 2010, 30), Row("ON", 2011, 42)>>

\* C3: the by-year aggregation yields exactly one entry per distinct year of
\* the input, whose value is the sum of total_emissions over all input records
\* of that year, and the result is the same for every permutation of the input;
\* [(ON,2010,40),(QC,2010,30),(ON,2011,42)] gives {2010: 70, 2011: 42}.
C3_AggregateByYear ==
    agg.done =>
        /\ {agg.out[i].year : i \in DOMAIN agg.out} = YearsOf(agg.df)
        /\ Len(agg.out) = Cardinality(YearsOf(agg.df))
        /\ \A i \in DOMAIN agg.out :
              agg.out[i].total_emissions = SumOver(agg.df, RowsOfYear(agg.df, agg.out[i].year))
        /\ \A f \in Permutations(DOMAIN agg.df) : GroupBySum(Permute(agg.df, f)) = agg.out
        /\ agg.df = AggScenario =>
              agg.out = << [year |-> 2010, total_emissions |-> 70],
                           [year |-> 2011, total_emissions |-> 42] >>

C3_Witness ==
    /\ agg.done
    /\ agg.df = AggScenario
    /\ Len(agg.out) = 2

HasLine(fig, k, a) == \E i \in DOMAIN fig : fig[i].kind = k /\ fig[i].actor = a

\* the loop of lines 147-202 is about to process actor a
AtLoop(a) == pc = "l147" /\ Len(run.country_codes) > 0 /\ a = Head(run.country_codes)

\* C4: when the pledge list returned for a selected actor is empty, the target
\* computation is skipped and the render continues: the actor's emissions line
\* is plotted and the run is not in an error state.
C4_EmptyPledgesSkipped ==
    [][\A a \in {"CA", "CAN", "US"} :
          (AtLoop(a) /\ a \in DOMAIN pledgeCache' /\ pledgeCache'[a] = <<>>)
            => (pc' # "error" /\ HasLine(run'.fig1, "emissions", a))]_vars

\* C5: when the baseline year of the pledge has no row in the actor's
\* emissions series, the target line is skipped and the render does not fail:
\* the actor's emissions line is plotted and the run is not in an error state.
C5_MissingBaselineSkipped ==
    [][\A a \in {"CA", "CAN", "US"} :
          (/\ AtLoop(a)
           /\ a \in DOMAIN pledgeCache'
           /\ pledgeCache'[a] # <<>>
           /\ RowsOfYear(FilterActor(cache["read_unfccc"], a),
                         pledgeCache'[a][1].baseline_year) = {})
            => (/\ pc' # "error"
                /\ HasLine(run'.fig1, "emissions", a)
                /\ ~HasLine(run'.fig1, "target", a))]_vars

\* C6: each actor id is fetched from the pledge API at most once and each
\* catalog source is read from upstream at most once, over any sequence of runs.
C6_FetchedAtMostOnce ==
    /\ \A s \in Sources : fetches[s] <= 1
    /\ \A a \in DOMAIN pledgeFetches : pledgeFetches[a] <= 1

\* C7: the cached tables and the cached pledge lists are never changed once
\* stored: after any step they equal the values first fetched.
C7_CachedDatasetsUnchanged ==
    [][/\ \A k \in DOMAIN cache : k \in DOMAIN cache' /\ cache'[k] = cache[k]
       /\ \A a \in DOMAIN pledgeCache :
             a \in DOMAIN pledgeCache' /\ pledgeCache'[a] = pledgeCache[a]]_vars

C7_Witness ==
    /\ pc = "done"
    /\ run.shown1 /\ run.shown2 /\ run.shown3
    /\ HasLine(run.fig1, "target", "CA")
    /\ DOMAIN cache = {"open_catalog", "get_country_names", "read_countries",
                       "read_unfccc", "read_epa", "read_eccc"}
    /\ fetches["country"] = 2

\* C8: for a pledge list with one or more entries, the target level and the
\* baseline year both come from the first pledge; pledges at position 2 or
\* later never affect the result.
C8_FirstPledgeOnly ==
    (tgt.done /\ Len(tgt.pledges) > 0) =>
        LET p1 == tgt.pledges[1]
            rows == SelectSeq(tgt.data, LAMBDA r : r.year = p1.baseline_year)
        IN  /\ tgt.out.baseline_year = p1.baseline_year
            /\ tgt.out.target_emissions =
                  [i \in DOMAIN rows |-> rows[i].total_emissions * (100 - p1.target_value)]
            /\ \A q \in TgtPledges :
                  GetTargetEmissionsDict(tgt.data, <<p1, q>>) = tgt.out

C8_Witness ==
    /\ tgt.done
    /\ Len(tgt.pledges) = 2
    /\ tgt.pledges[2].baseline_year # tgt.pledges[1].baseline_year
    /\ tgt.pledges[2].target_value # tgt.pledges[1].target_value
    /\ Len(tgt.out.target_emissions) = 1
    /\ HasYear(tgt.data, tgt.pledges[2].baseline_year)

\* the subnational actors that belong to a national actor
SubnationalsOf(a) ==
    IF a = "CA" THEN {"CA-ON", "CA-QC"}
    ELSE IF a = "US" THEN {"US-TX"}
    ELSE {}

\* C9: the aggregated subnational series of the selected national actor sums
\* only records of subnational actors that belong to it; no other record of the
\* inventory table (such as a national-level row) contributes to a year's sum.
C9_OnlyOwnSubnationals ==
    (pc \in {"l312", "done"} /\ run.assigned) =>
        run.df_sum =
            GroupBySum(SelectSeq(SubnationalTable(run.actor_id).df,
                                 LAMBDA r : r.actor \in SubnationalsOf(run.actor_id)))

\* C10: in every run of the reconciliation view the resolved actor id matches
\* exactly one of the branches 'CA' / 'US', so the subnational total is
\* assigned before the difference of line 312 is computed.
C10_AssignedBeforeDifference ==
    /\ pc \in {"l245", "l312"} => run.actor_id \in {"CA", "US"}
    /\ pc = "l312" => run.assigned

====
